---- MODULE Spec2Model ----
(***************************************************************************)
(* Model of crates/exec-harness/src/analysis/mod.rs: the benchmark         *)
(* executor in its two modes (perform, perform_with_valgrind) and the      *)
(* subprocess detector bail_if_command_spawned_subprocesses_under_valgrind.*)
(* One run of one of the two functions is modelled step by step; the       *)
(* operating system (process creation, pids, exit), the valgrind runtime   *)
(* writing <pid>.out files and the instrumentation hooks are the           *)
(* environment, whose outcomes are chosen nondeterministically.            *)
(***************************************************************************)
EXTENDS Naturals, Integers, Sequences, FiniteSets, TLC

\* ------------------------------------------------------------------ bounds
\* Longest command sequence handed to a run.
MaxCmds == 2

\* ------------------------------------------------------- text and numbers
\* File names are sequences of one-character strings.
Digits == <<"0", "1", "2", "3", "4", "5", "6", "7", "8", "9">>

IsDigit(c) == \E k \in 1..10 : Digits[k] = c

DigitVal(c) == (CHOOSE k \in 1..10 : Digits[k] = c) - 1

\* A u32 is kept as two 16-bit limbs so that values up to 2^32 - 1 and the
\* overflow past them are computed exactly.
Limb == 65536

U32Of(n) == [hi |-> n \div Limb, lo |-> n % Limb]

\* The comparison with >= in place of >.
U32GtOrEqual(a, b) == a.hi > b.hi \/ (a.hi = b.hi /\ a.lo >= b.lo)

\* subprocess_pid > pid on u32 values.
U32Gt(a, b) == a.hi > b.hi \/ (a.hi = b.hi /\ a.lo > b.lo)

ParseErr == [ok |-> FALSE, hi |-> 0, lo |-> 0]

\* u32::checked_mul(10) followed by u32::checked_add(d); ParseErr on overflow.
MulAdd(acc, d) ==
    LET lo10 == acc.lo * 10 + d
        hi10 == acc.hi * 10 + (lo10 \div Limb)
    IN  IF hi10 >= Limb THEN ParseErr
        ELSE [ok |-> TRUE, hi |-> hi10, lo |-> lo10 % Limb]

RECURSIVE ParseDigits(_, _)
\* Folds the digits of s into acc, left to right; any non-digit is an error.
\* The accumulator of the next digit is bound as an element of a singleton,
\* which has it computed once per digit.
ParseDigits(s, acc) ==
    IF ~acc.ok THEN ParseErr
    ELSE IF s = <<>> THEN acc
    ELSE IF ~IsDigit(Head(s)) THEN ParseErr
    ELSE CHOOSE r \in {ParseDigits(Tail(s), next) :
                          next \in {MulAdd(acc, DigitVal(Head(s)))}} : TRUE

\* str::parse::<u32>: empty is an error, a lone sign is an error, one leading
\* "+" is accepted and skipped, "-" is not a digit of an unsigned type.
ParseU32(s) ==
    LET zero == [ok |-> TRUE, hi |-> 0, lo |-> 0]
    IN  IF s = <<>> THEN ParseErr
        ELSE IF Len(s) = 1 /\ Head(s) \in {"+", "-"} THEN ParseErr
        ELSE IF Head(s) = "+" THEN ParseDigits(Tail(s), zero)
        ELSE ParseDigits(s, zero)

DotOut == <<".", "o", "u", "t">>

\* str::strip_suffix(".out"): the prefix, or no match.
HasSuffixOut(name) ==
    /\ Len(name) >= Len(DotOut)
    /\ SubSeq(name, Len(name) - Len(DotOut) + 1, Len(name)) = DotOut

StripSuffixOut(name) == SubSeq(name, 1, Len(name) - Len(DotOut))

RECURSIVE ToDecimal(_)
\* Decimal rendering of a process id, as the runtime's %p does.
ToDecimal(n) ==
    IF n < 10 THEN <<Digits[n + 1]>>
    ELSE ToDecimal(n \div 10) \o <<Digits[(n % 10) + 1]>>

\* The name of the profile entry the instrumentation runtime writes for pid.
ProfileEntry(pid) == ToDecimal(pid) \o DotOut

\* ------------------------------------------------------------ the inputs
\* BenchmarkCommand { name, command }: command is the argv, never empty.
CmdA == [name |-> "a", command |-> <<"/bin/a">>]

CmdB == [name |-> "b", command |-> <<"/bin/b", "x">>]

CommandPool == {CmdA, CmdB}

CommandSeqs == UNION {[1..n -> CommandPool] : n \in 0..MaxCmds}

RECURSIVE Join(_)
\* [String]::join(" ")
Join(argv) ==
    IF argv = <<>> THEN ""
    ELSE IF Len(argv) = 1 THEN argv[1]
    ELSE argv[1] \o " " \o Join(Tail(argv))

\* uri::generate_name_and_uri: the reportable identifier of a command, a
\* deterministic function of its name and its argv.
generate_name_and_uri(cmd) ==
    [name |-> cmd.name, uri |-> "exec_harness::" \o cmd.name \o "::" \o Join(cmd.command)]

\* Process ids the operating system hands out, in any order (pids wrap).
Pids == {100, 150}

\* Exit codes of a benchmark process.
ExitCodes == {0, 1}

\* Names found in the profile folder before the run: left by earlier runs or
\* by anything else writing there.
StaleNames ==
    { ProfileEntry(100), ProfileEntry(150), ProfileEntry(999),
      <<"+", "1", "5", "0">> \o DotOut,
      <<"0", "1", "5", "0">> \o DotOut,
      <<"-", "1">> \o DotOut,
      DotOut,
      <<"a", "b", "c">> \o DotOut,
      <<"1", "5", "0", ".", "t", "x", "t">>,
      <<"4", "2", "9", "4", "9", "6", "7", "2", "9", "5">> \o DotOut,
      <<"4", "2", "9", "4", "9", "6", "7", "2", "9", "6">> \o DotOut }

\* The folder starts empty or with one such entry; the processes of the run
\* add theirs.
StaleDirs == {{}} \cup {{n} : n \in StaleNames}

\* The environment of the harness process.  Unset stands for an absent
\* variable.
Unset == "<unset>"

URI_ENV == "CODSPEED_BENCH_URI"

EnvNames == {"PATH", "LD_PRELOAD", "PYTHONPERFSUPPORT", URI_ENV, "CODSPEED_PROFILE_FOLDER"}

BaseEnv == [v \in EnvNames |-> IF v = "PATH" THEN "/usr/bin" ELSE Unset]

PreloadLibPath == "/opt/codspeed/libpreload.so"

\* -------------------------------------------------------------- the state
VARIABLES
    mode,          \* "Plain": perform; "Injected": perform_with_valgrind
    commands,      \* the argument of the run
    env,           \* environment variables of the harness process
    dir,           \* names of the entries of the profile folder
    instrumented,  \* the run is under valgrind, writing <pid>.out per process
    pc,            \* position of the run in its function
    idx,           \* 1-based index of the command the loop is at (0: none yet)
    preload_lib_path, \* local of perform_with_valgrind
    child,         \* the benchmark child process of the current command
    status,        \* local `status`: what status()/wait() returned
    subprocs,      \* for each command, the pids of the subprocesses its process spawned
    result,        \* "running", "Ok", or the error the run returned
    trace          \* observable events of the run, in order

vars == <<mode, commands, env, dir, instrumented, pc, idx, preload_lib_path, child, status,
          subprocs, result, trace>>

NoChild == [state |-> "none", pid |-> 0, code |-> 0]

NoStatus == [kind |-> "none", code |-> 0]

Init ==
    /\ mode \in {"Plain", "Injected"}
    /\ commands \in CommandSeqs
    /\ \E pf \in {Unset, "/profile"} :
          env = [BaseEnv EXCEPT !["CODSPEED_PROFILE_FOLDER"] = pf]
    /\ dir \in StaleDirs
    /\ instrumented \in (IF mode = "Injected" THEN BOOLEAN ELSE {FALSE})
    /\ pc = "begin"
    /\ idx = 0
    /\ preload_lib_path = Unset
    /\ child = NoChild
    /\ status = NoStatus
    /\ subprocs = [i \in 1..Len(commands) |-> {}]
    /\ result = "running"
    /\ trace = <<>>

Log(e) == trace' = Append(trace, e)

\* Return from the run with an error (`?`, bail!) or a panic (unwrap).
Fail(err) == /\ result' = err
             /\ pc' = "done"

Cur == commands[idx]

\* ------------------------------------------------- the subprocess detector
\* Lines 104-106: the entry name ends in ".out", what precedes parses as a
\* u32, and that number is greater than the benchmark's pid.
IsSubprocessEntry(name, pid) ==
    /\ HasSuffixOut(name)
    /\ \E parsed \in {ParseU32(StripSuffixOut(name))} :
          parsed.ok /\ U32Gt(parsed, U32Of(pid))

\* What reading the folder can meet.  read_dir itself fails (line 99), or the
\* iterator yields the entries of `before`, in some order, and then an error
\* in place of the next entry (line 100), or nothing fails and every entry
\* is yielded.
NoReadError == [at |-> "none", before |-> {}]

ReadDirError == [at |-> "read_dir", before |-> {}]

ReadErrors(entries) ==
    {NoReadError, ReadDirError}
        \cup {[at |-> "entry", before |-> b] : b \in SUBSET entries}

\* The detector without the early return on an unset variable.
SubprocessAuditNoSkip(pid, profile_folder, read_error, entries) ==
    IF read_error.at = "read_dir" THEN [outcome |-> "IoError", listed |-> TRUE]
    ELSE LET seen == IF read_error.at = "entry" THEN read_error.before ELSE entries
         IN  IF \E name \in seen : IsSubprocessEntry(name, pid)
             THEN [outcome |-> "SubprocessDetected", listed |-> TRUE]
             ELSE IF read_error.at = "entry"
                  THEN [outcome |-> "IoError", listed |-> TRUE]
                  ELSE [outcome |-> "Ok", listed |-> TRUE]

\* The detector taking a read error for the end of the listing.
SubprocessAuditUnreadableAsEmpty(pid, profile_folder, read_error, entries) ==
    IF profile_folder = Unset THEN [outcome |-> "Ok", listed |-> FALSE]
    ELSE IF read_error.at = "read_dir" THEN [outcome |-> "Ok", listed |-> TRUE]
    ELSE LET seen == IF read_error.at = "entry" THEN read_error.before ELSE entries
         IN  IF \E name \in seen : IsSubprocessEntry(name, pid)
             THEN [outcome |-> "SubprocessDetected", listed |-> TRUE]
             ELSE [outcome |-> "Ok", listed |-> TRUE]

\* bail_if_command_spawned_subprocesses_under_valgrind(pid), as a function of
\* the variable, of the read error met and of the entries.  The loop is lazy:
\* it looks at the entries in the order the iterator yields them and leaves
\* at the first entry of a greater pid (lines 106-113) or at the first error
\* (`?`, lines 99 and 100), whichever comes first.  With an error in place
\* of an entry, the entries yielded before it decide: one of a greater pid
\* among them ends the audit with SubprocessDetected, and the error is never
\* met; otherwise the error is returned.  Without an error the order does
\* not change the result.  `listed` tells whether read_dir was called at all.
SubprocessAudit(pid, profile_folder, read_error, entries) ==
    IF profile_folder = Unset THEN [outcome |-> "Ok", listed |-> FALSE]
    ELSE IF read_error.at = "read_dir" THEN [outcome |-> "IoError", listed |-> TRUE]
    ELSE LET seen == IF read_error.at = "entry" THEN read_error.before ELSE entries
         IN  IF \E name \in seen : IsSubprocessEntry(name, pid)
             THEN [outcome |-> "SubprocessDetected", listed |-> TRUE]
             ELSE IF read_error.at = "entry"
                  THEN [outcome |-> "IoError", listed |-> TRUE]
                  ELSE [outcome |-> "Ok", listed |-> TRUE]

\* --------------------------------------------------- the benchmark process
\* The operating system runs the child; none of this is the harness's code.
\* Under valgrind every process leaves <pid>.out in the profile folder when
\* it ends.

\* The benchmark process spawns a subprocess, which runs under valgrind
\* without the instrumentation and leaves its own <pid>.out.
ChildSpawnsSubprocess ==
    /\ mode = "Injected"
    /\ child.state = "running"
    /\ \E q \in Pids \ ({child.pid} \cup subprocs[idx]) :
          /\ subprocs' = [subprocs EXCEPT ![idx] = @ \cup {q}]
          /\ dir' = IF instrumented THEN dir \cup {ProfileEntry(q)} ELSE dir
    /\ UNCHANGED <<mode, commands, instrumented, env, pc, idx, preload_lib_path, child,
                   status, result, trace>>

\* The benchmark process ends with an exit code.
ChildExits ==
    /\ child.state = "running"
    /\ \E code \in ExitCodes :
          /\ child' = [child EXCEPT !.state = "exited", !.code = code]
          /\ Log([ev |-> "exit", cmd |-> idx, pid |-> child.pid, code |-> code])
    /\ dir' = IF instrumented THEN dir \cup {ProfileEntry(child.pid)} ELSE dir
    /\ UNCHANGED <<mode, commands, instrumented, env, pc, idx, preload_lib_path, status,
                   subprocs, result>>

\* ------------------------------------------------------ perform (Plain)
\* Line 16: InstrumentHooks::instance.
perform_begin ==
    /\ mode = "Plain" /\ pc = "begin"
    /\ pc' = "for"
    /\ UNCHANGED <<mode, commands, instrumented, env, dir, idx, preload_lib_path, child, status,
                   subprocs, result, trace>>

\* Lines 18-23 and 36: the loop head; builds name_and_uri and cmd.
perform_for ==
    /\ mode = "Plain" /\ pc = "for"
    /\ IF idx < Len(commands)
       THEN /\ idx' = idx + 1
            /\ pc' = "start_benchmark"
            /\ child' = NoChild
            /\ status' = NoStatus
            /\ UNCHANGED result
       ELSE /\ result' = "Ok"
            /\ pc' = "done"
            /\ UNCHANGED <<idx, child, status>>
    /\ UNCHANGED <<mode, commands, instrumented, env, dir, preload_lib_path, subprocs, trace>>

\* start_benchmark with its result discarded instead of unwrapped.
perform_start_benchmark_discarded ==
    /\ mode = "Plain" /\ pc = "start_benchmark"
    /\ \E ok \in BOOLEAN :
          /\ Log([ev |-> "start_benchmark", cmd |-> idx, ok |-> ok])
          /\ pc' = "status_call"
          /\ UNCHANGED result
    /\ UNCHANGED <<mode, commands, instrumented, env, dir, idx, preload_lib_path, child,
                   status, subprocs>>

\* Line 24: hooks.start_benchmark().unwrap()
perform_start_benchmark ==
    /\ mode = "Plain" /\ pc = "start_benchmark"
    /\ \E ok \in BOOLEAN :
          /\ Log([ev |-> "start_benchmark", cmd |-> idx, ok |-> ok])
          /\ IF ok THEN pc' = "status_call" /\ UNCHANGED result
                   ELSE Fail("Panic")
    /\ UNCHANGED <<mode, commands, instrumented, env, dir, idx, preload_lib_path, child, status,
                   subprocs>>

\* cmd.status()? with the error propagated at once, before stop_benchmark.
perform_status_spawn_propagating ==
    /\ mode = "Plain" /\ pc = "status_call"
    /\ \/ \E pid \in Pids :
             /\ child' = [state |-> "running", pid |-> pid, code |-> 0]
             /\ Log([ev |-> "spawn", cmd |-> idx, pid |-> pid, argv |-> Cur.command,
                     env |-> env, entries |-> dir])
             /\ pc' = "status_wait"
             /\ UNCHANGED <<status, result>>
       \/ /\ status' = [kind |-> "err", code |-> 0]
          /\ Log([ev |-> "spawn_failed", cmd |-> idx])
          /\ Fail("FailedToExecute")
          /\ UNCHANGED child
    /\ UNCHANGED <<mode, commands, instrumented, env, dir, idx, preload_lib_path, subprocs>>

\* Line 25, first half: cmd.status() creates the process, with the
\* harness's own environment.
perform_status_spawn ==
    /\ mode = "Plain" /\ pc = "status_call"
    /\ \/ \E pid \in Pids :
             /\ child' = [state |-> "running", pid |-> pid, code |-> 0]
             /\ Log([ev |-> "spawn", cmd |-> idx, pid |-> pid, argv |-> Cur.command,
                     env |-> env, entries |-> dir])
             /\ pc' = "status_wait"
             /\ UNCHANGED status
       \/ /\ status' = [kind |-> "err", code |-> 0]
          /\ Log([ev |-> "spawn_failed", cmd |-> idx])
          /\ pc' = "stop_benchmark"
          /\ UNCHANGED child
    /\ UNCHANGED <<mode, commands, instrumented, env, dir, idx, preload_lib_path, subprocs, result>>

\* Line 25, second half: cmd.status() blocks until the process has exited.
perform_status_wait ==
    /\ mode = "Plain" /\ pc = "status_wait"
    /\ child.state = "exited"
    /\ \/ status' = [kind |-> "ok", code |-> child.code]
       \/ status' = [kind |-> "err", code |-> 0]
    /\ pc' = "stop_benchmark"
    /\ child' = [child EXCEPT !.state = "reaped"]
    /\ UNCHANGED <<mode, commands, instrumented, env, dir, idx, preload_lib_path, subprocs,
                   result, trace>>

\* Line 26: hooks.stop_benchmark().unwrap()
perform_stop_benchmark ==
    /\ mode = "Plain" /\ pc = "stop_benchmark"
    /\ \E ok \in BOOLEAN :
          /\ Log([ev |-> "stop_benchmark", cmd |-> idx, ok |-> ok])
          /\ IF ok THEN pc' = "check_status" /\ UNCHANGED result
                   ELSE Fail("Panic")
    /\ UNCHANGED <<mode, commands, instrumented, env, dir, idx, preload_lib_path, child, status,
                   subprocs>>

\* perform's status test without the bail! on a non-zero exit status.
perform_check_status_lenient ==
    /\ mode = "Plain" /\ pc = "check_status"
    /\ IF status.kind = "err" THEN Fail("FailedToExecute")
       ELSE pc' = "set_executed" /\ UNCHANGED result
    /\ UNCHANGED <<mode, commands, instrumented, env, dir, idx, preload_lib_path, child, status,
                   subprocs, trace>>

\* Lines 27-31: status.context(..)? and the test of status.success().
perform_check_status ==
    /\ mode = "Plain" /\ pc = "check_status"
    /\ IF status.kind = "err" THEN Fail("FailedToExecute")
       ELSE IF status.code # 0 THEN Fail("NonZeroExit")
       ELSE pc' = "set_executed" /\ UNCHANGED result
    /\ UNCHANGED <<mode, commands, instrumented, env, dir, idx, preload_lib_path, child, status,
                   subprocs, trace>>

\* The record made with the URI of the first command of the sequence.
perform_set_executed_first_uri ==
    /\ mode = "Plain" /\ pc = "set_executed"
    /\ \E ok \in BOOLEAN :
          /\ Log([ev |-> "set_executed", cmd |-> idx, ok |-> ok,
                  uri |-> generate_name_and_uri(commands[1]).uri])
          /\ IF ok THEN pc' = "for" /\ UNCHANGED result
                   ELSE Fail("Panic")
    /\ UNCHANGED <<mode, commands, instrumented, env, dir, idx, preload_lib_path, child, status,
                   subprocs>>

\* Line 33: hooks.set_executed_benchmark(&name_and_uri.uri).unwrap()
perform_set_executed ==
    /\ mode = "Plain" /\ pc = "set_executed"
    /\ \E ok \in BOOLEAN :
          /\ Log([ev |-> "set_executed", cmd |-> idx, ok |-> ok,
                  uri |-> generate_name_and_uri(Cur).uri])
          /\ IF ok THEN pc' = "for" /\ UNCHANGED result
                   ELSE Fail("Panic")
    /\ UNCHANGED <<mode, commands, instrumented, env, dir, idx, preload_lib_path, child, status,
                   subprocs>>

\* ------------------------------------- perform_with_valgrind (Injected)
\* The locator called only when there is a command to run.
valgrind_begin_lazy ==
    /\ mode = "Injected" /\ pc = "begin"
    /\ IF commands = <<>>
       THEN /\ pc' = "for"
            /\ UNCHANGED <<preload_lib_path, result, trace>>
       ELSE \E located \in {"Ok", "NotFound", "UnsupportedPlatform"} :
               /\ Log([ev |-> "locate", outcome |-> located])
               /\ IF located = "Ok"
                  THEN /\ preload_lib_path' = PreloadLibPath
                       /\ pc' = "for"
                       /\ UNCHANGED result
                  ELSE /\ Fail(located)
                       /\ UNCHANGED preload_lib_path
    /\ UNCHANGED <<mode, commands, instrumented, env, dir, idx, child, status, subprocs>>

\* Line 45: preload_lib_file::get_preload_lib_path()?
valgrind_begin ==
    /\ mode = "Injected" /\ pc = "begin"
    /\ \E located \in {"Ok", "NotFound", "UnsupportedPlatform"} :
          /\ Log([ev |-> "locate", outcome |-> located])
          /\ IF located = "Ok"
             THEN /\ preload_lib_path' = PreloadLibPath
                  /\ pc' = "for"
                  /\ UNCHANGED result
             ELSE /\ Fail(located)
                  /\ UNCHANGED preload_lib_path
    /\ UNCHANGED <<mode, commands, instrumented, env, dir, idx, child, status, subprocs>>

\* Lines 47 and 73: the loop head.
valgrind_for ==
    /\ mode = "Injected" /\ pc = "for"
    /\ IF idx < Len(commands)
       THEN /\ idx' = idx + 1
            /\ pc' = "check"
            /\ child' = NoChild
            /\ status' = NoStatus
            /\ UNCHANGED result
       ELSE /\ result' = "Ok"
            /\ pc' = "done"
            /\ UNCHANGED <<idx, child, status>>
    /\ UNCHANGED <<mode, commands, instrumented, env, dir, preload_lib_path, subprocs, trace>>

\* The compatibility check with its result dropped instead of propagated.
valgrind_check_ignored ==
    /\ mode = "Injected" /\ pc = "check"
    /\ \E compatible \in BOOLEAN :
          /\ Log([ev |-> "check", cmd |-> idx, exe |-> Cur.command[1],
                  ok |-> compatible])
          /\ pc' = "spawn"
          /\ UNCHANGED result
    /\ UNCHANGED <<mode, commands, instrumented, env, dir, idx, preload_lib_path, child, status,
                   subprocs>>

\* Line 49: ld_preload_check::check_ld_preload_compatible(&command[0])?
valgrind_check ==
    /\ mode = "Injected" /\ pc = "check"
    /\ \E compatible \in BOOLEAN :
          /\ Log([ev |-> "check", cmd |-> idx, exe |-> Cur.command[1],
                  ok |-> compatible])
          /\ IF compatible THEN pc' = "spawn" /\ UNCHANGED result
                           ELSE Fail("IncompatibleTarget")
    /\ UNCHANGED <<mode, commands, instrumented, env, dir, idx, preload_lib_path, child, status,
                   subprocs>>

\* The child's environment built from an emptied one, as after env_clear().
InjectedEnvCleared(parent, lib, uri) ==
    [v \in EnvNames |->
        IF v = "LD_PRELOAD" THEN lib
        ELSE IF v = "PYTHONPERFSUPPORT" THEN "1"
        ELSE IF v = URI_ENV THEN uri
        ELSE Unset]

\* Lines 57-60: the environment of the child, the harness's own plus three
\* variables.
InjectedEnv(parent, lib, uri) ==
    [parent EXCEPT !["LD_PRELOAD"] = lib,
                   !["PYTHONPERFSUPPORT"] = "1",
                   ![URI_ENV] = uri]

\* Lines 51-62: build the command and cmd.spawn().context(..)?
valgrind_spawn ==
    /\ mode = "Injected" /\ pc = "spawn"
    /\ \/ \E pid \in Pids :
             /\ child' = [state |-> "running", pid |-> pid, code |-> 0]
             /\ Log([ev |-> "spawn", cmd |-> idx, pid |-> pid, argv |-> Cur.command,
                     entries |-> dir,
                     env |-> InjectedEnv(env, preload_lib_path,
                                         generate_name_and_uri(Cur).uri)])
             /\ pc' = "wait"
             /\ UNCHANGED result
       \/ /\ Log([ev |-> "spawn_failed", cmd |-> idx])
          /\ Fail("FailedToSpawn")
          /\ UNCHANGED child
    /\ UNCHANGED <<mode, commands, instrumented, env, dir, idx, preload_lib_path, status, subprocs>>

\* A wait that returns without blocking while the process still runs.
valgrind_wait_nonblocking ==
    /\ mode = "Injected" /\ pc = "wait"
    /\ child.state \in {"running", "exited"}
    /\ child' = [child EXCEPT !.state = "reaped"]
    /\ \/ /\ status' = [kind |-> "ok", code |-> child.code]
          /\ pc' = "audit"
          /\ UNCHANGED result
       \/ /\ Fail("FailedToExecute")
          /\ UNCHANGED status
    /\ UNCHANGED <<mode, commands, instrumented, env, dir, idx, preload_lib_path, subprocs, trace>>

\* The wait with the exit status tested right after it, before the audit.
valgrind_wait_status_first ==
    /\ mode = "Injected" /\ pc = "wait"
    /\ child.state = "exited"
    /\ child' = [child EXCEPT !.state = "reaped"]
    /\ \/ /\ status' = [kind |-> "ok", code |-> child.code]
          /\ IF child.code # 0 THEN Fail("NonZeroExit")
                               ELSE pc' = "audit" /\ UNCHANGED result
       \/ /\ Fail("FailedToExecute")
          /\ UNCHANGED status
    /\ UNCHANGED <<mode, commands, instrumented, env, dir, idx, preload_lib_path, subprocs, trace>>

\* Line 64: child.wait().context(..)? blocks until the process has exited.
valgrind_wait ==
    /\ mode = "Injected" /\ pc = "wait"
    /\ child.state = "exited"
    /\ child' = [child EXCEPT !.state = "reaped"]
    /\ \/ /\ status' = [kind |-> "ok", code |-> child.code]
          /\ pc' = "audit"
          /\ UNCHANGED result
       \/ /\ Fail("FailedToExecute")
          /\ UNCHANGED status
    /\ UNCHANGED <<mode, commands, instrumented, env, dir, idx, preload_lib_path, subprocs, trace>>

\* The read errors an audit is run against: any of them when the variable is
\* set; with the variable unset the folder is not touched, and a folder that
\* can and one that cannot be listed stand for all of them.
AuditReadErrors ==
    IF env["CODSPEED_PROFILE_FOLDER"] = Unset
    THEN {NoReadError, ReadDirError}
    ELSE ReadErrors(dir)

\* The audit removing the entries it has scanned.
valgrind_audit_destructive ==
    /\ mode = "Injected" /\ pc = "audit"
    /\ \E read_error \in AuditReadErrors :
       \E audit \in {SubprocessAudit(child.pid, env["CODSPEED_PROFILE_FOLDER"],
                                     read_error, dir)} :
              /\ Log([ev |-> "audit", cmd |-> idx, pid |-> child.pid,
                      listed |-> audit.listed,
                      readable |-> read_error.at = "none",
                      read_error |-> read_error,
                      child |-> child.state, entries |-> dir,
                      outcome |-> audit.outcome])
              /\ IF audit.outcome = "Ok" THEN pc' = "check_status" /\ UNCHANGED result
                                         ELSE Fail(audit.outcome)
              /\ dir' = IF audit.listed /\ read_error.at = "none" THEN {} ELSE dir
    /\ UNCHANGED <<mode, commands, instrumented, env, idx, preload_lib_path, child,
                   status, subprocs>>

\* Line 66: bail_if_command_spawned_subprocesses_under_valgrind(child.id())?
\* The folder is listed only when the variable is set; nothing is written.
\* The audit is run once, against one of the read errors it can meet, and
\* its result is bound as the element of a singleton.
valgrind_audit ==
    /\ mode = "Injected" /\ pc = "audit"
    /\ \E read_error \in AuditReadErrors :
       \E audit \in {SubprocessAudit(child.pid, env["CODSPEED_PROFILE_FOLDER"],
                                     read_error, dir)} :
              /\ Log([ev |-> "audit", cmd |-> idx, pid |-> child.pid,
                      listed |-> audit.listed,
                      readable |-> read_error.at = "none",
                      read_error |-> read_error,
                      child |-> child.state, entries |-> dir,
                      outcome |-> audit.outcome])
              /\ IF audit.outcome = "Ok" THEN pc' = "check_status" /\ UNCHANGED result
                                         ELSE Fail(audit.outcome)
    /\ dir' = dir
    /\ UNCHANGED <<mode, commands, instrumented, env, idx, preload_lib_path, child,
                   status, subprocs>>

\* perform_with_valgrind's loop without the bail! on a non-zero exit status.
valgrind_check_status_lenient ==
    /\ mode = "Injected" /\ pc = "check_status"
    /\ pc' = "for"
    /\ UNCHANGED <<mode, commands, instrumented, env, dir, idx, preload_lib_path, child,
                   status, subprocs, result, trace>>

\* Lines 68-70: the test of status.success().
valgrind_check_status ==
    /\ mode = "Injected" /\ pc = "check_status"
    /\ IF status.code # 0 THEN Fail("NonZeroExit")
       ELSE pc' = "for" /\ UNCHANGED result
    /\ UNCHANGED <<mode, commands, instrumented, env, dir, idx, preload_lib_path, child, status,
                   subprocs, trace>>

\* ------------------------------------------------------- the specification
Next ==
    \/ perform_begin
    \/ perform_for
    \/ perform_start_benchmark
    \/ perform_status_spawn
    \/ perform_status_wait
    \/ perform_stop_benchmark
    \/ perform_check_status
    \/ perform_set_executed
    \/ valgrind_begin
    \/ valgrind_for
    \/ valgrind_check
    \/ valgrind_spawn
    \/ valgrind_wait
    \/ valgrind_audit
    \/ valgrind_check_status
    \/ ChildSpawnsSubprocess
    \/ ChildExits

Spec == Init /\ [][Next]_vars

\* The steps of the run itself: perform and perform_with_valgrind are
\* straight-line, single-threaded code, so the step enabled at the current
\* position is eventually taken.  The steps of the benchmark process are not
\* in it: nothing makes a process exit.
HarnessStep ==
    \/ perform_begin
    \/ perform_for
    \/ perform_start_benchmark
    \/ perform_status_spawn
    \/ perform_status_wait
    \/ perform_stop_benchmark
    \/ perform_check_status
    \/ perform_set_executed
    \/ valgrind_begin
    \/ valgrind_for
    \/ valgrind_check
    \/ valgrind_spawn
    \/ valgrind_wait
    \/ valgrind_audit
    \/ valgrind_check_status

LiveSpec == Spec /\ WF_vars(HarnessStep)

\* ============================================================== properties
Positions == 1..Len(trace)

IsSpawnAttempt(e) == e.ev \in {"spawn", "spawn_failed"}

\* A command failed to spawn, or its process exited with a non-zero status.
CommandFailed(e) == e.ev = "spawn_failed" \/ (e.ev = "exit" /\ e.code # 0)

IsHookFailure(e) ==
    e.ev \in {"start_benchmark", "stop_benchmark", "set_executed"} /\ ~e.ok

\* What a run can return as Err(..).
Errors == {"NotFound", "UnsupportedPlatform", "IncompatibleTarget", "FailedToSpawn",
           "FailedToExecute", "IoError", "SubprocessDetected", "NonZeroExit"}

\* C1: in both modes, once a command failed to spawn or exited with a
\* non-zero status, no later spawn is attempted, and the run, once over, has
\* ended in an error (a panic only when an instrumentation hook failed too),
\* never in Ok.
C1_FailureAbortsRun ==
    \A k \in Positions :
        CommandFailed(trace[k]) =>
            /\ \A j \in (k + 1)..Len(trace) : ~IsSpawnAttempt(trace[j])
            /\ pc = "done" =>
                  /\ result \in Errors \cup {"Panic"}
                  /\ result = "Panic" => \E j \in Positions : IsHookFailure(trace[j])

\* C1 happens: of two commands the first exited non-zero and the run is over.
C1_Witness ==
    /\ Len(commands) = 2
    /\ pc = "done"
    /\ result = "NonZeroExit"
    /\ \E k \in Positions :
          trace[k].ev = "exit" /\ trace[k].cmd = 1 /\ trace[k].code # 0

\* C2: in Injected mode every spawn attempt of a command comes after a
\* compatibility check of that command that accepted it; a rejected command
\* is never spawned, and its rejection ends the run with IncompatibleTarget,
\* so that no check and no spawn follows it.
C2_CheckBeforeSpawn ==
    mode = "Injected" =>
        /\ \A k \in Positions :
              IsSpawnAttempt(trace[k]) =>
                  \E j \in 1..(k - 1) :
                      /\ trace[j].ev = "check"
                      /\ trace[j].cmd = trace[k].cmd
                      /\ trace[j].exe = commands[trace[k].cmd].command[1]
                      /\ trace[j].ok
        /\ \A k \in Positions :
              (trace[k].ev = "check" /\ ~trace[k].ok) =>
                  /\ \A j \in Positions :
                        IsSpawnAttempt(trace[j]) => trace[j].cmd # trace[k].cmd
                  /\ \A j \in (k + 1)..Len(trace) :
                        trace[j].ev \notin {"check", "spawn", "spawn_failed"}
                  /\ pc = "done"
                  /\ result = "IncompatibleTarget"

\* C2 happens: the first of two commands was rejected by the check.
C2_Witness ==
    /\ mode = "Injected"
    /\ Len(commands) = 2
    /\ \E k \in Positions :
          trace[k].ev = "check" /\ trace[k].cmd = 1 /\ ~trace[k].ok

\* The entry name carries a process id: a number before ".out".
CarriesPid(name) == HasSuffixOut(name) /\ ParseU32(StripSuffixOut(name)).ok

\* The process id carried by the name is greater than pid (pid < 2^16).
PidAbove(name, pid) ==
    LET v == ParseU32(StripSuffixOut(name)) IN v.hi > 0 \/ v.lo > pid

ProfileFolderSet == env["CODSPEED_PROFILE_FOLDER"] # Unset

\* C3: with the profile-folder variable set and the folder listed, the audit
\* of pid fails with SubprocessDetected when some entry carries a pid greater
\* than pid, and succeeds when every entry that carries a pid carries one
\* less than or equal to pid: 100.out alone passes for pid 100, 100.out with
\* 150.out fails for pid 100.
C3_AuditComparesStrictly ==
    \A k \in Positions :
        (trace[k].ev = "audit" /\ ProfileFolderSet /\ trace[k].readable) =>
            LET e == trace[k] IN
            /\ (\E n \in e.entries : CarriesPid(n) /\ PidAbove(n, e.pid))
                  => e.outcome = "SubprocessDetected"
            /\ (\A n \in e.entries : CarriesPid(n) => ~PidAbove(n, e.pid))
                  => e.outcome = "Ok"
            /\ \A p \in {100, 150, 999} :
                  (ProfileEntry(p) \in e.entries /\ p > e.pid)
                      => e.outcome = "SubprocessDetected"
            /\ (e.pid = 100 /\ e.entries = {ProfileEntry(100)})
                  => e.outcome = "Ok"
            /\ (e.pid = 100 /\ e.entries = {ProfileEntry(100), ProfileEntry(150)})
                  => e.outcome = "SubprocessDetected"

\* C3 happens: in one run, pid 100 was audited over {100.out} and passed, and
\* pid 100 was audited over {100.out, 150.out} and failed.
C3_Witness ==
    /\ ProfileFolderSet
    /\ \E k \in Positions :
          /\ trace[k].ev = "audit" /\ trace[k].pid = 100
          /\ trace[k].entries = {ProfileEntry(100)}
          /\ trace[k].outcome = "Ok"
    /\ \E k \in Positions :
          /\ trace[k].ev = "audit" /\ trace[k].pid = 100
          /\ trace[k].entries = {ProfileEntry(100), ProfileEntry(150)}
          /\ trace[k].outcome = "SubprocessDetected"

\* C4: with the profile-folder variable unset every audit succeeds, whatever
\* the pid and the entries of the folder, and the folder is not listed.
C4_UnsetSkipsAudit ==
    ~ProfileFolderSet =>
        \A k \in Positions :
            trace[k].ev = "audit" =>
                trace[k].outcome = "Ok" /\ ~trace[k].listed

\* C4 happens: variable unset, the folder holds 999.out, a process of lower
\* pid was audited and passed.
C4_Witness ==
    /\ ~ProfileFolderSet
    /\ \E k \in Positions :
          /\ trace[k].ev = "audit"
          /\ ProfileEntry(999) \in trace[k].entries
          /\ trace[k].pid < 999
          /\ trace[k].outcome = "Ok"

\* C5: in Injected mode the audit of a command comes right after the exit of
\* that command's process, which is no longer running, and before its exit
\* status is tested: NonZeroExit is returned only after an audit that passed;
\* when the audit reports SubprocessDetected that is the run's error even if
\* the exit status was non-zero; when the audit passed and the status was
\* non-zero the run's error is NonZeroExit.
C5_AuditBeforeStatus ==
    mode = "Injected" =>
        /\ \A k \in Positions :
              trace[k].ev = "audit" =>
                  /\ trace[k].child = "reaped"
                  /\ k > 1
                  /\ trace[k - 1].ev = "exit"
                  /\ trace[k - 1].cmd = trace[k].cmd
                  /\ trace[k - 1].pid = trace[k].pid
        /\ result = "NonZeroExit" =>
              /\ trace[Len(trace)].ev = "audit"
              /\ trace[Len(trace)].cmd = idx
              /\ trace[Len(trace)].outcome = "Ok"
              /\ trace[Len(trace) - 1].code # 0
        /\ (pc = "done" /\ Len(trace) > 1 /\ trace[Len(trace)].ev = "audit") =>
              LET audit == trace[Len(trace)]
                  code  == trace[Len(trace) - 1].code
              IN  /\ audit.outcome = "SubprocessDetected"
                        => result = "SubprocessDetected"
                  /\ (audit.outcome = "Ok" /\ code # 0)
                        => result = "NonZeroExit"

\* C5 happens: the process exited non-zero, the audit found evidence, and the
\* run ended with SubprocessDetected.
C5_Witness ==
    /\ mode = "Injected"
    /\ pc = "done"
    /\ result = "SubprocessDetected"
    /\ Len(trace) > 1
    /\ trace[Len(trace)].ev = "audit"
    /\ trace[Len(trace) - 1].ev = "exit"
    /\ trace[Len(trace) - 1].code # 0

\* C6: in Plain mode the events of a command follow one another in the order
\* start-benchmark, spawn, exit, stop-benchmark, record-executed: a spawn
\* attempt comes right after the command's start-benchmark, the exit after
\* the spawn, stop-benchmark after the exit (or after the failed spawn), and
\* record-executed only after a start, a spawn, an exit with status zero and
\* a stop of that same command, with the URI generated from that command.
C6_PlainEventOrder ==
    mode = "Plain" =>
        \A k \in Positions :
            LET e == trace[k] IN
            /\ IsSpawnAttempt(e) =>
                  /\ k > 1
                  /\ trace[k - 1].ev = "start_benchmark"
                  /\ trace[k - 1].cmd = e.cmd
                  /\ trace[k - 1].ok
            /\ e.ev = "exit" =>
                  /\ trace[k - 1].ev = "spawn"
                  /\ trace[k - 1].cmd = e.cmd
                  /\ trace[k - 1].pid = e.pid
            /\ e.ev = "stop_benchmark" =>
                  /\ k > 1
                  /\ trace[k - 1].ev \in {"exit", "spawn_failed"}
                  /\ trace[k - 1].cmd = e.cmd
            /\ e.ev = "set_executed" =>
                  /\ k > 4
                  /\ trace[k - 4].ev = "start_benchmark" /\ trace[k - 4].cmd = e.cmd
                  /\ trace[k - 3].ev = "spawn" /\ trace[k - 3].cmd = e.cmd
                  /\ trace[k - 3].argv = commands[e.cmd].command
                  /\ trace[k - 2].ev = "exit" /\ trace[k - 2].cmd = e.cmd
                  /\ trace[k - 2].code = 0
                  /\ trace[k - 1].ev = "stop_benchmark" /\ trace[k - 1].cmd = e.cmd
                  /\ trace[k - 1].ok
                  /\ e.uri = generate_name_and_uri(commands[e.cmd]).uri

\* C6 happens: the second of two different commands was recorded as executed.
C6_Witness ==
    /\ mode = "Plain"
    /\ Len(commands) = 2
    /\ commands[1] # commands[2]
    /\ \E k \in Positions :
          trace[k].ev = "set_executed" /\ trace[k].cmd = 2 /\ trace[k].ok

\* C7: in both modes the n-th spawn attempt of a run is that of the n-th
\* command of the sequence, with that command's argv, so that commands are
\* spawned in the order given and none twice; and a process is spawned only
\* after every process spawned before it has exited, so that at most one
\* benchmark process is alive.
C7_SequentialSpawns ==
    /\ \A k \in Positions :
          IsSpawnAttempt(trace[k]) =>
              LET n == Cardinality({j \in 1..k : IsSpawnAttempt(trace[j])}) IN
              /\ trace[k].cmd = n
              /\ trace[k].ev = "spawn" => trace[k].argv = commands[n].command
              /\ \A j \in 1..(k - 1) :
                    trace[j].ev = "spawn" =>
                        \E m \in (j + 1)..(k - 1) :
                            /\ trace[m].ev = "exit"
                            /\ trace[m].cmd = trace[j].cmd
                            /\ trace[m].pid = trace[j].pid
    /\ LET spawned == Cardinality({k \in Positions : trace[k].ev = "spawn"})
           exited  == Cardinality({k \in Positions : trace[k].ev = "exit"})
       IN  /\ spawned - exited \in {0, 1}
           /\ spawned - exited = 1 <=> child.state = "running"

\* C7 happens: a second process was spawned in a run.
C7_Witness ==
    \E j, k \in Positions :
        /\ j < k
        /\ trace[j].ev = "spawn" /\ trace[j].cmd = 1
        /\ trace[k].ev = "spawn" /\ trace[k].cmd = 2

\* C8: in Injected mode the preload library is located once per run, as the
\* first thing the run does, before any check or spawn; when the locator
\* fails, the run is over with that failure and nothing else has happened:
\* no check, no spawn, whatever the command sequence, the empty one included.
C8_LocateOnceFirst ==
    mode = "Injected" =>
        /\ Cardinality({k \in Positions : trace[k].ev = "locate"}) <= 1
        /\ pc # "begin" => (Len(trace) >= 1 /\ trace[1].ev = "locate")
        /\ \A k \in Positions :
              trace[k].ev \in {"check", "spawn", "spawn_failed"} =>
                  k > 1 /\ trace[1].ev = "locate" /\ trace[1].outcome = "Ok"
        /\ (Len(trace) >= 1 /\ trace[1].ev = "locate" /\ trace[1].outcome # "Ok") =>
              /\ Len(trace) = 1
              /\ pc = "done"
              /\ result = trace[1].outcome
              /\ result \in {"NotFound", "UnsupportedPlatform"}
        /\ (pc = "done" /\ result = "Ok") => trace[1].outcome = "Ok"

\* C8 happens: the locator failed in a run over the empty sequence.
C8_Witness ==
    /\ mode = "Injected"
    /\ commands = <<>>
    /\ pc = "done"
    /\ result = "NotFound"

NoSubprocessSpawned == \A i \in 1..Len(commands) : subprocs[i] = {}

\* C9, as claimed: in an Injected-mode run in which no benchmark process
\* spawns a subprocess, no command is failed with SubprocessDetected,
\* whatever entries the folder held and whatever pids the processes got.
C9_NoFalsePositive ==
    (mode = "Injected" /\ NoSubprocessSpawned) => result # "SubprocessDetected"

\* C9, amended: in an Injected-mode run in which no benchmark process spawns
\* a subprocess, a command is failed with SubprocessDetected only if, when
\* its process was spawned, the folder already held an entry carrying a pid
\* greater than the pid that process got; the process's own <pid>.out never
\* fails it.
C9_FalsePositiveOnlyFromEarlierEntry ==
    (mode = "Injected" /\ NoSubprocessSpawned /\ result = "SubprocessDetected") =>
        /\ Len(trace) > 2
        /\ trace[Len(trace)].ev = "audit"
        /\ trace[Len(trace) - 2].ev = "spawn"
        /\ trace[Len(trace) - 2].cmd = idx
        /\ LET spawn == trace[Len(trace) - 2]
               audit == trace[Len(trace)]
           IN  /\ \E n \in spawn.entries : CarriesPid(n) /\ PidAbove(n, spawn.pid)
               /\ \E n \in audit.entries \ {ProfileEntry(audit.pid)} :
                     CarriesPid(n) /\ PidAbove(n, audit.pid)

\* C9 happens: a run without any subprocess ended with SubprocessDetected,
\* and the failed command's process had left its own <pid>.out.
C9_Witness ==
    /\ mode = "Injected"
    /\ NoSubprocessSpawned
    /\ result = "SubprocessDetected"
    /\ ProfileEntry(child.pid) \in dir

AuditStep ==
    /\ Len(trace') = Len(trace) + 1
    /\ trace'[Len(trace')].ev = "audit"

\* C10: a step that audits leaves the set of entries of the profile folder
\* as it was, whether the audit succeeds or fails, and is taken only when no
\* benchmark process is running: the audited process has exited and has been
\* waited for.
C10_AuditReadOnlyAfterExit ==
    [][AuditStep =>
          /\ dir' = dir
          /\ child.state = "reaped"
          /\ child'.state = "reaped"
          /\ trace[Len(trace)].ev = "exit"
          /\ trace[Len(trace)].pid = trace'[Len(trace')].pid]_vars

\* C10 happens: an audit listed a folder with entries and failed, and the
\* entries are all there.
C10_Witness ==
    /\ Len(trace) > 0
    /\ trace[Len(trace)].ev = "audit"
    /\ trace[Len(trace)].listed
    /\ trace[Len(trace)].readable
    /\ trace[Len(trace)].entries # {}
    /\ trace[Len(trace)].outcome = "SubprocessDetected"
    /\ dir = trace[Len(trace)].entries

InjectedVars == {"LD_PRELOAD", "PYTHONPERFSUPPORT", URI_ENV}

\* What the environment of every child spawned so far looks like.
ChildEnvAsSpecified ==
    \A k \in Positions :
        trace[k].ev = "spawn" =>
            LET e == trace[k] IN
            IF mode = "Injected"
            THEN /\ \A v \in EnvNames \ InjectedVars : e.env[v] = env[v]
                 /\ e.env["LD_PRELOAD"] = PreloadLibPath
                 /\ e.env["LD_PRELOAD"] = preload_lib_path
                 /\ trace[1].ev = "locate" /\ trace[1].outcome = "Ok"
                 /\ e.env["PYTHONPERFSUPPORT"] = "1"
                 /\ e.env[URI_ENV] = generate_name_and_uri(commands[e.cmd]).uri
                 /\ \A i \in 1..Len(commands) :
                       commands[i] # commands[e.cmd] =>
                           e.env[URI_ENV] # generate_name_and_uri(commands[i]).uri
            ELSE e.env = env

\* C11: in Injected mode every spawned child gets the harness's environment
\* with three variables set over it: the preload path located at the start
\* of the run, the perf-map flag "1" and the URI of that very command; in
\* Plain mode the child gets the harness's environment as it is; and no step
\* of a run changes the harness's own environment.
C11_ChildEnvironment ==
    /\ [](ChildEnvAsSpecified /\ (\A v \in InjectedVars : env[v] = BaseEnv[v]))
    /\ [][env' = env]_vars

\* C11 happens: the second of two different commands was spawned in Injected
\* mode, with the profile-folder variable inherited.
C11_Witness ==
    /\ mode = "Injected"
    /\ Len(commands) = 2
    /\ commands[1] # commands[2]
    /\ \E k \in Positions :
          /\ trace[k].ev = "spawn" /\ trace[k].cmd = 2
          /\ trace[k].env["CODSPEED_PROFILE_FOLDER"] = "/profile"

\* C12: in Plain mode a failed instrumentation call ends the run at once, in
\* a panic: it is the last event of the run, so that after a failed
\* start-benchmark the command's process is not spawned and after a failed
\* stop-benchmark or record-executed no later command is spawned, and the run
\* does not end in Ok.
C12_HookFailureIsFatal ==
    mode = "Plain" =>
        \A k \in Positions :
            IsHookFailure(trace[k]) =>
                /\ k = Len(trace)
                /\ pc = "done"
                /\ result = "Panic"
                /\ idx = trace[k].cmd
                /\ trace[k].ev = "start_benchmark" =>
                      \A j \in Positions :
                          IsSpawnAttempt(trace[j]) => trace[j].cmd < trace[k].cmd
                /\ \A j \in Positions :
                      IsSpawnAttempt(trace[j]) => trace[j].cmd <= trace[k].cmd

\* C12 happens: the start-benchmark of the second of two commands failed.
C12_Witness ==
    /\ mode = "Plain"
    /\ Len(commands) = 2
    /\ \E k \in Positions :
          trace[k].ev = "start_benchmark" /\ trace[k].cmd = 2 /\ ~trace[k].ok

\* Some event of kind ev of command i, satisfying P.
Happened(kind, i, P(_)) ==
    \E k \in Positions : trace[k].ev = kind /\ trace[k].cmd = i /\ P(trace[k])

AnyEvent(e) == TRUE

WasOk(e) == e.ok

ExitedZero(e) == e.code = 0

AuditPassed(e) == e.outcome = "Ok"

\* Command i was spawned and exited with status zero and, in Injected mode,
\* passed the compatibility check and the audit.
SpawnedAndExitedZero(i) ==
    /\ Happened("spawn", i, AnyEvent)
    /\ Happened("exit", i, ExitedZero)
    /\ mode = "Injected" =>
          Happened("check", i, WasOk) /\ Happened("audit", i, AuditPassed)

\* The same, and in Plain mode the three instrumentation calls of the
\* command succeeded and status() returned the exit status.
CompletedSuccessfully(i) ==
    /\ SpawnedAndExitedZero(i)
    /\ mode = "Plain" =>
          /\ Happened("start_benchmark", i, WasOk)
          /\ Happened("stop_benchmark", i, WasOk)
          /\ Happened("set_executed", i, WasOk)

\* No event of a command after the i-th.
NothingAfter(i) ==
    \A k \in Positions : trace[k].ev # "locate" => trace[k].cmd <= i

LocatorFailed ==
    Len(trace) >= 1 /\ trace[1].ev = "locate" /\ trace[1].outcome # "Ok"

\* The failure of the command the run stopped at, read off its last events.
FailureOfLastCommand ==
    LET n    == Len(trace)
        last == trace[n]
    IN  IF mode = "Injected"
        THEN CASE last.ev = "check"        -> "IncompatibleTarget"
               [] last.ev = "spawn_failed" -> "FailedToSpawn"
               [] last.ev = "exit"         -> "FailedToExecute"
               [] last.ev = "audit" /\ last.outcome # "Ok" -> last.outcome
               [] OTHER                    -> "NonZeroExit"
        ELSE IF IsHookFailure(last) THEN "Panic"
        ELSE IF trace[n - 1].ev = "spawn_failed" \/ status.kind = "err"
             THEN "FailedToExecute"
        ELSE "NonZeroExit"

\* C13, as claimed: a finished run returned Ok exactly when every command
\* was spawned and exited with status zero (and, Injected, passed check and
\* audit); otherwise some command is the first not to have done so, those
\* before it did, and nothing of those after it happened.
C13_OkIffAllCommandsSucceeded ==
    pc = "done" =>
        /\ result = "Ok" <=> \A i \in 1..Len(commands) : SpawnedAndExitedZero(i)
        /\ result # "Ok" =>
              \E f \in 1..Len(commands) :
                  /\ ~SpawnedAndExitedZero(f)
                  /\ \A i \in 1..(f - 1) : SpawnedAndExitedZero(i)
                  /\ NothingAfter(f)

\* C13, amended: a finished run returned Ok exactly when the locator
\* succeeded (Injected) and every command completed successfully, which in
\* Plain mode includes its three instrumentation calls; otherwise the run
\* ended either with the locator's failure, before any command, or with the
\* failure of the command it stopped at (in Plain mode a panic when an
\* instrumentation call failed), every command before that one having
\* completed successfully and nothing of the commands after it having
\* happened.
C13_OkIffEveryStepSucceeded ==
    pc = "done" =>
        /\ result = "Ok" <=>
              /\ ~LocatorFailed
              /\ \A i \in 1..Len(commands) : CompletedSuccessfully(i)
        /\ (result # "Ok" /\ LocatorFailed) =>
              /\ mode = "Injected"
              /\ result = trace[1].outcome
              /\ Len(trace) = 1
        /\ (result # "Ok" /\ ~LocatorFailed) =>
              /\ idx \in 1..Len(commands)
              /\ ~CompletedSuccessfully(idx)
              /\ \A i \in 1..(idx - 1) : CompletedSuccessfully(i)
              /\ NothingAfter(idx)
              /\ result = FailureOfLastCommand
              /\ result \in (Errors \cup {"Panic"}) \ {"NotFound", "UnsupportedPlatform"}

\* C13 happens: of two commands the first completed and the second exited
\* non-zero, and the run returned that.
C13_Witness ==
    /\ mode = "Injected"
    /\ pc = "done"
    /\ Len(commands) = 2
    /\ idx = 2
    /\ result = "NonZeroExit"
    /\ CompletedSuccessfully(1)

\* The name is a non-empty run of decimal digits followed by ".out", and the
\* digits fit a 32-bit process id.
IsDigitsDotOut(name) ==
    /\ HasSuffixOut(name)
    /\ LET prefix == StripSuffixOut(name)
       IN  /\ prefix # <<>>
           /\ \A i \in 1..Len(prefix) : IsDigit(prefix[i])
           /\ ParseU32(prefix).ok

\* C14: an audit that listed the folder fails with SubprocessDetected exactly
\* when some entry named <digits>.out carries a pid greater than the audited
\* one; entries with any other name (no ".out" suffix, empty or non-digit
\* prefix such as a leading sign, digits too large for 32 bits) do not change
\* its result.
C14_OnlyDigitsDotOutCount ==
    \A k \in Positions :
        (trace[k].ev = "audit" /\ trace[k].listed /\ trace[k].readable) =>
            (trace[k].outcome = "SubprocessDetected"
                <=> \E n \in trace[k].entries :
                        IsDigitsDotOut(n) /\ PidAbove(n, trace[k].pid))

IsStart(e) == e.ev = "start_benchmark" /\ e.ok

\* C15: in Plain mode every start-benchmark that succeeded is followed by
\* exactly one stop-benchmark call of the same command, made before the next
\* start-benchmark and before the run is over, also when the process failed
\* to spawn or exited with a non-zero status; and no stop-benchmark is called
\* without a start-benchmark before it.
C15_StartStopBalanced ==
    mode = "Plain" =>
        /\ \A k \in Positions :
              IsStart(trace[k]) =>
                  LET stops == {j \in Positions :
                                   /\ trace[j].ev = "stop_benchmark"
                                   /\ trace[j].cmd = trace[k].cmd}
                  IN  /\ Cardinality(stops) <= 1
                      /\ \A j \in stops : j > k
                      /\ pc = "done" => Cardinality(stops) = 1
                      /\ \A n \in (k + 1)..Len(trace) :
                            trace[n].ev = "start_benchmark" =>
                                \E j \in stops : j < n
        /\ \A j \in Positions :
              trace[j].ev = "stop_benchmark" =>
                  \E k \in 1..(j - 1) :
                      IsStart(trace[k]) /\ trace[k].cmd = trace[j].cmd

\* C15 happens: a process failed to spawn, stop-benchmark was called all the
\* same, and the run is over.
C15_Witness ==
    /\ mode = "Plain"
    /\ pc = "done"
    /\ \E k \in 1..(Len(trace) - 1) :
          /\ trace[k].ev = "spawn_failed"
          /\ trace[k + 1].ev = "stop_benchmark"
          /\ trace[k + 1].cmd = trace[k].cmd

\* The audit at position k met something it could not read: read_dir failed,
\* or the folder holds an entry whose reading fails.
UnreadableAt(k) == trace[k].ev = "audit" /\ trace[k].read_error.at # "none"

\* The process of the audit at position k had exited before the audit and was
\* spawned once; the audit is the last step of the run, which returned the
\* audit's error.
AbortsRunAt(k) ==
    /\ k = Len(trace)
    /\ pc = "done"
    /\ result = trace[k].outcome
    /\ trace[k - 1].ev = "exit" /\ trace[k - 1].cmd = trace[k].cmd
    /\ Cardinality({j \in Positions :
                       /\ IsSpawnAttempt(trace[j])
                       /\ trace[j].cmd = trace[k].cmd}) = 1

\* C16, as claimed: with the profile-folder variable set, an audit of a
\* folder that cannot be read, or that holds an entry that cannot be read,
\* ends in the I/O error, never in SubprocessDetected, whatever the entries;
\* in Injected mode it is the last step of the run, which returns that error
\* even when the process exited with status zero; the process was spawned
\* once, had exited before the audit, and is not spawned again.
C16_UnreadableNeverSubprocessDetected ==
    (mode = "Injected" /\ ProfileFolderSet) =>
        \A k \in Positions :
            UnreadableAt(k) =>
                /\ trace[k].listed
                /\ trace[k].outcome = "IoError"
                /\ AbortsRunAt(k)

\* C16, amended: with the profile-folder variable set, an audit of a folder
\* that cannot be read, or that holds an entry that cannot be read, ends in
\* an error and never in Ok: in SubprocessDetected when the unreadable thing
\* is an entry and an entry of a greater pid was yielded before it, in the
\* I/O error in every other case.  Either way it is the last step of the
\* run, which returns that error even when the process exited with status
\* zero; the process was spawned once, had exited before the audit, and is
\* not spawned again.
C16_UnreadableFolderAborts ==
    (mode = "Injected" /\ ProfileFolderSet) =>
        \A k \in Positions :
            UnreadableAt(k) =>
                /\ trace[k].listed
                /\ trace[k].read_error.before \subseteq trace[k].entries
                /\ trace[k].outcome =
                       IF /\ trace[k].read_error.at = "entry"
                          /\ \E n \in trace[k].read_error.before :
                                CarriesPid(n) /\ PidAbove(n, trace[k].pid)
                       THEN "SubprocessDetected"
                       ELSE "IoError"
                /\ AbortsRunAt(k)

\* C16 happens: the process exited with status zero, the folder held an entry
\* of a greater pid behind an entry that could not be read, and the run
\* returned the I/O error.
C16_Witness ==
    /\ mode = "Injected"
    /\ ProfileFolderSet
    /\ result = "IoError"
    /\ Len(trace) > 1
    /\ UnreadableAt(Len(trace))
    /\ trace[Len(trace)].read_error.at = "entry"
    /\ \E n \in dir : CarriesPid(n) /\ PidAbove(n, trace[Len(trace)].pid)
    /\ trace[Len(trace) - 1].ev = "exit"
    /\ trace[Len(trace) - 1].code = 0

\* The run has returned, with Ok or with an error.
Returned == pc = "done"

ChildRunning == child.state = "running"

\* Every spawned benchmark process eventually exits: no process runs from
\* some moment on for ever, that is, again and again no process is running
\* (the same as [](ChildRunning => <>~ChildRunning)).
EverySpawnedProcessExits == []<>(~ChildRunning)

\* A benchmark process never exits.
SomeProcessNeverExits == <>[]ChildRunning

SpawnedProcesses == {k \in Positions : trace[k].ev = "spawn"}

\* C17: under fair scheduling of the run's own steps, (1) if every spawned
\* benchmark process eventually exits, the run eventually returns, in either
\* mode; (2) at every moment the run has spawned at most as many processes
\* as it has commands, one per command at most; (3) if a benchmark process
\* never exits, the run never returns; (4) while a benchmark process runs,
\* the run stays where it is: it does not move to another command, does not
\* return, and spawns nothing.
C17_ReturnsIffProcessesExit ==
    /\ EverySpawnedProcessExits => <>Returned
    /\ [](/\ Cardinality(SpawnedProcesses) <= Len(commands)
          /\ \A j, k \in SpawnedProcesses : trace[j].cmd = trace[k].cmd => j = k)
    /\ SomeProcessNeverExits => []~Returned
    /\ [][ChildRunning =>
            /\ pc' = pc /\ idx' = idx /\ result' = result
            /\ \A k \in (Len(trace) + 1)..Len(trace') : ~IsSpawnAttempt(trace'[k])]_vars

\* C17 happens: a run over two commands has returned after spawning one
\* process per command, each of which exited.
C17_Witness ==
    /\ Returned
    /\ Len(commands) = 2
    /\ Cardinality(SpawnedProcesses) = 2
    /\ Cardinality({k \in Positions : trace[k].ev = "exit"}) = 2

====
